---------------------------- MODULE Spec2Model ----------------------------
(***************************************************************************)
(* Finance Jarvis (src/app.py): the watchlist and session state, the       *)
(* 6-indicator technical signal engine and the 7-factor aggregation.       *)
(*                                                                         *)
(* Numbers.  Prices are integers.  float64 arithmetic is done exactly:     *)
(* a value of an exponentially weighted series is a signed integer         *)
(* numerator (arbitrary precision, limbs of Radix) over a denominator      *)
(* that the recurrences divide exactly; a quotient keeps its numerator and *)
(* denominator, so that x/0 is +inf, -inf or NaN as in IEEE 754 and every  *)
(* comparison with NaN is false; a standard deviation is kept as its       *)
(* square.  Rounding error of float64 is not modelled.  News scores are    *)
(* in tenths.                                                              *)
(***************************************************************************)
EXTENDS Integers, Sequences, FiniteSets, TLC

VARIABLES
    tickers,          \* st.session_state.tickers
    selected_ticker,  \* st.session_state.selected_ticker
    portfolio_file,   \* the content of my_portfolio.json
    pc,               \* where the script run stands
    page,             \* what the main page of the last run ended as
    history,          \* the price history in hand
    news,             \* the news items in hand: the scorer's reply to each
    tech_signals,     \* calculate_comprehensive_signals(...)[0]
    df_calc,          \* calculate_comprehensive_signals(...)[1], its last row
    news_scores,
    avg_news_score,
    news_signal,
    total_score,
    decision

vars == <<tickers, selected_ticker, portfolio_file, pc, page, history, news,
          tech_signals, df_calc, news_scores, avg_news_score, news_signal,
          total_score, decision>>

-----------------------------------------------------------------------------
(* Bounds of the model *)

MaxTickers == 2      \* the watchlist is capped at this length
MaxBars == 41        \* the longest price history
MaxNews == 6         \* the longest news list
BasePrice == 100     \* the first close of every generated history

(* Constants of the program *)

MIN_BARS == 30       \* len(df) < 30
NEWS_LIMIT == 5      \* news[:5]
BB_WINDOW == 20
BB_MULT == 2
CCI_WINDOW == 20
STOCH_WINDOW == 14
MOMENTUM_LAG == 10
RSI_COM == 13
RSI_LOW == 30
RSI_HIGH == 70
CCI_LIMIT == 100
STOCH_LOW == 20
STOCH_HIGH == 80
STRONG == 4          \* total_score >= 4, total_score <= -4
MILD == 1            \* total_score >= 1, total_score <= -1

None == [None |-> TRUE]
NoTicker == "None"

Max(a, b) == IF a >= b THEN a ELSE b
Min(a, b) == IF a <= b THEN a ELSE b
Abs(a) == IF a < 0 THEN -a ELSE a

-----------------------------------------------------------------------------
(* Arbitrary-precision naturals: little-endian limbs, no leading zero limb. *)
(* The carries run through the limbs by halving the range (lo..hi), which  *)
(* keeps the evaluation shallow.                                           *)

Radix == 10^5

At(a, i) == IF i <= Len(a) THEN a[i] ELSE 0

\* a without its leading zero limbs
BTrim(a) ==
    LET nz == {i \in 1..Len(a) : a[i] # 0}
    IN  IF nz = {} THEN <<>>
        ELSE SubSeq(a, 1, CHOOSE i \in nz : \A j \in nz : j <= i)

RECURSIVE AddSeg(_, _, _, _, _)
AddSeg(a, b, lo, hi, c) ==
    IF lo = hi
    THEN LET s == At(a, lo) + At(b, lo) + c
         IN  [out |-> <<s % Radix>>, c |-> s \div Radix]
    ELSE LET mid == (lo + hi) \div 2
             l == AddSeg(a, b, lo, mid, c)
             h == AddSeg(a, b, mid + 1, hi, l.c)
         IN  [out |-> l.out \o h.out, c |-> h.c]

BAdd(a, b) ==
    LET n == Max(Len(a), Len(b))
        r == AddSeg(a, b, 1, n, 0)
    IN  IF n = 0 THEN <<>> ELSE IF r.c = 0 THEN r.out ELSE Append(r.out, r.c)

RECURSIVE SubSeg(_, _, _, _, _)
SubSeg(a, b, lo, hi, c) ==
    IF lo = hi
    THEN LET s == a[lo] - At(b, lo) - c
         IN  [out |-> <<IF s < 0 THEN s + Radix ELSE s>>, c |-> IF s < 0 THEN 1 ELSE 0]
    ELSE LET mid == (lo + hi) \div 2
             l == SubSeg(a, b, lo, mid, c)
             h == SubSeg(a, b, mid + 1, hi, l.c)
         IN  [out |-> l.out \o h.out, c |-> h.c]

\* a - b, for a >= b
BSub(a, b) == IF a = <<>> THEN <<>> ELSE BTrim(SubSeg(a, b, 1, Len(a), 0).out)

\* -1, 0, 1 as a < b, a = b, a > b
BCmp(a, b) ==
    IF Len(a) < Len(b) THEN -1
    ELSE IF Len(a) > Len(b) THEN 1
    ELSE LET df == {i \in 1..Len(a) : a[i] # b[i]}
             top == CHOOSE i \in df : \A j \in df : j <= i
         IN  IF df = {} THEN 0 ELSE IF a[top] < b[top] THEN -1 ELSE 1

RECURSIVE MulSeg(_, _, _, _, _)
MulSeg(a, k, lo, hi, c) ==
    IF lo = hi
    THEN LET s == a[lo] * k + c
         IN  [out |-> <<s % Radix>>, c |-> s \div Radix]
    ELSE LET mid == (lo + hi) \div 2
             l == MulSeg(a, k, lo, mid, c)
             h == MulSeg(a, k, mid + 1, hi, l.c)
         IN  [out |-> l.out \o h.out, c |-> h.c]

\* a * k, for a natural k < 2^31 / Radix
BMul(a, k) ==
    LET r == MulSeg(a, k, 1, Len(a), 0)
    IN  IF a = <<>> \/ k = 0 THEN <<>> ELSE IF r.c = 0 THEN r.out ELSE Append(r.out, r.c)

\* long division by q, from the top limb down; r is the remainder so far,
\* out has the top limb first
RECURSIVE DivSeg(_, _, _, _, _)
DivSeg(a, q, lo, hi, r) ==
    IF lo = hi
    THEN LET s == r * Radix + a[lo]
         IN  [out |-> <<s \div q>>, r |-> s % q]
    ELSE LET mid == (lo + hi) \div 2
             h == DivSeg(a, q, mid + 1, hi, r)
             l == DivSeg(a, q, lo, mid, h.r)
         IN  [out |-> h.out \o l.out, r |-> l.r]

Reverse(x) == [i \in 1..Len(x) |-> x[Len(x) + 1 - i]]

\* a / q, for a natural q < 2^31 / Radix that divides a
BDiv(a, q) == IF a = <<>> THEN <<>> ELSE BTrim(Reverse(DivSeg(a, q, 1, Len(a), 0).out))

(* Signed: sign and magnitude *)

Z(neg, mag) == [neg |-> neg /\ mag # <<>>, mag |-> mag]
ZInt(i) == Z(i < 0, BMul(<<1>>, Abs(i)))
ZNeg(a) == Z(~a.neg, a.mag)
ZAdd(a, b) ==
    IF a.neg = b.neg THEN Z(a.neg, BAdd(a.mag, b.mag))
    ELSE IF BCmp(a.mag, b.mag) >= 0 THEN Z(a.neg, BSub(a.mag, b.mag))
    ELSE Z(b.neg, BSub(b.mag, a.mag))
ZSub(a, b) == ZAdd(a, ZNeg(b))
ZMul(a, k) == Z((k < 0) # a.neg, BMul(a.mag, Abs(k)))
ZDiv(a, q) == Z(a.neg, BDiv(a.mag, q))
ZLess(a, b) == ZSub(a, b).neg
ZIsZero(a) == a.mag = <<>>

(* float64 division and comparison.  n / d for d >= 0: NaN when both are   *)
(* zero, +inf or -inf when only d is; a comparison with NaN is false.      *)

Quot(n, d) == [n |-> n, d |-> d]
IsNaN(q) == ZIsZero(q.d) /\ ZIsZero(q.n)
IsFinite(q) == ~ZIsZero(q.d)

\* a comparison that NaN passes; property C7 must tell it from the code's
LtUnordered(q, k) ==
    IF ZIsZero(q.d) THEN q.n.neg \/ ZIsZero(q.n) ELSE ZLess(q.n, ZMul(q.d, k))

Lt(q, k) == IF ZIsZero(q.d) THEN q.n.neg ELSE ZLess(q.n, ZMul(q.d, k))
Gt(q, k) == IF ZIsZero(q.d) THEN ~q.n.neg /\ ~ZIsZero(q.n) ELSE ZLess(ZMul(q.d, k), q.n)

\* k + q, k / q (for q >= 0) and k - q
IntPlus(k, q) == Quot(ZAdd(ZMul(q.d, k), q.n), q.d)
IntOver(k, q) == Quot(ZMul(q.d, k), q.n)
IntMinus(k, q) == Quot(ZSub(ZMul(q.d, k), q.n), q.d)

-----------------------------------------------------------------------------
(* Series *)

RECURSIVE SumSeg(_, _, _)
SumSeg(x, lo, hi) ==
    IF lo > hi THEN 0
    ELSE IF lo = hi THEN x[lo]
    ELSE SumSeg(x, lo, (lo + hi) \div 2) + SumSeg(x, (lo + hi) \div 2 + 1, hi)

SumSeq(x) == SumSeg(x, 1, Len(x))
MinSeq(x) == CHOOSE m \in {x[i] : i \in 1..Len(x)} : \A i \in 1..Len(x) : m <= x[i]
MaxSeq(x) == CHOOSE m \in {x[i] : i \in 1..Len(x)} : \A i \in 1..Len(x) : m >= x[i]

Col(df, c) == [i \in 1..Len(df) |-> df[i][c]]

\* the last w entries of x: the rolling window of the last bar
Rolling(x, w) == SubSeq(x, Len(x) - w + 1, Len(x))

\* a * k^n
RECURSIVE MulPow(_, _, _)
MulPow(a, k, n) ==
    IF n = 0 THEN a
    ELSE IF n = 1 THEN BMul(a, k)
    ELSE LET half == MulPow(a, k, n \div 2)
         IN  IF half = <<>> THEN <<>> ELSE MulPow(half, k, n - n \div 2)

\* k^(n-1): the denominator of the n-th value of an exponentially weighted
\* series whose smoothing factors' denominators have the product k
Unit(k, n) == MulPow(<<1>>, k, n - 1)

Fixed(x, unit) == [i \in 1..Len(x) |-> ZMul(Z(FALSE, unit), x[i])]

\* Series.ewm(alpha = num/den, adjust=False).mean():
\* y[1] = x[1], y[t] = (1 - alpha) * y[t-1] + alpha * x[t].
\* EwmSeg is y[lo..hi], given y0 = y[lo-1].
RECURSIVE EwmSeg(_, _, _, _, _, _)
EwmSeg(x, num, den, y0, lo, hi) ==
    IF lo = hi
    THEN <<ZDiv(ZAdd(ZMul(y0, den - num), ZMul(x[lo], num)), den)>>
    ELSE LET mid == (lo + hi) \div 2
             l == EwmSeg(x, num, den, y0, lo, mid)
         IN  l \o EwmSeg(x, num, den, l[Len(l)], mid + 1, hi)

ewm(x, num, den) ==
    IF Len(x) = 1 THEN <<x[1]>>
    ELSE <<x[1]>> \o EwmSeg(x, num, den, x[1], 2, Len(x))

\* ewm(span=s): alpha = 2 / (s + 1);  ewm(com=c): alpha = 1 / (1 + c)
ewm_span(x, s) == ewm(x, 2, s + 1)
ewm_com(x, c) == ewm(x, 1, 1 + c)

-----------------------------------------------------------------------------
(* 3. The six indicators on the last bar *)

\* 1. MACD (12, 26, 9)
MACD_last(df) ==
    LET n == Len(df)
        close == Fixed(Col(df, "Close"), Unit((12 + 1) * (26 + 1) * (9 + 1), n))
        EMA12 == ewm_span(close, 12)
        EMA26 == ewm_span(close, 26)
        MACD == [i \in 1..n |-> ZSub(EMA12[i], EMA26[i])]
        Signal_Line == ewm_span(MACD, 9)
    IN  [MACD |-> MACD[n], Signal_Line |-> Signal_Line[n]]

\* 2. RSI (14).  delta[1] is NaN, and NaN > 0, NaN < 0 are false
RSI_last(df) ==
    LET n == Len(df)
        close == Col(df, "Close")
        delta == [i \in 2..n |-> close[i] - close[i - 1]]
        up == [i \in 1..n |-> IF i > 1 /\ delta[i] > 0 THEN delta[i] ELSE 0]
        down == [i \in 1..n |-> IF i > 1 /\ delta[i] < 0 THEN delta[i] ELSE 0]
        unit == Unit(1 + RSI_COM, n)
        gain == ewm_com(Fixed(up, unit), RSI_COM)
        loss == ewm_com(Fixed([i \in 1..n |-> -down[i]], unit), RSI_COM)
        rs == Quot(gain[n], loss[n])
    IN  [gain |-> gain[n], loss |-> loss[n],
         RSI |-> IntMinus(100, IntOver(100, IntPlus(1, rs)))]

\* 3. Bollinger Bands (20, 2).  With S the sum and Q the sum of squares of
\* the window of w closes: SMA20 = S / w, STD20^2 = (w*Q - S^2) / (w*(w-1))
\* (pandas' std is the sample standard deviation).
BB_last(df) ==
    LET x == Rolling(Col(df, "Close"), BB_WINDOW)
        S == SumSeq(x)
        Q == SumSeq([i \in 1..Len(x) |-> x[i] * x[i]])
    IN  [SMA20 |-> [n |-> S, d |-> BB_WINDOW],
         VAR20 |-> [n |-> BB_WINDOW * Q - S * S, d |-> BB_WINDOW * (BB_WINDOW - 1)]]

\* c <= SMA20 - 2*STD20, that is  SMA20 - c >= 0  and  (SMA20 - c)^2 >= 4*STD20^2
AtOrBelowLower(c, bb) ==
    LET a == bb.SMA20.n - c * bb.SMA20.d
    IN  a >= 0 /\ a * a * bb.VAR20.d >= BB_MULT * BB_MULT * bb.VAR20.n * bb.SMA20.d * bb.SMA20.d

\* a band one deviation wide; property C8 must tell it from the code's
AtOrAboveOneSigma(c, bb) ==
    LET a == c * bb.SMA20.d - bb.SMA20.n
    IN  a >= 0 /\ a * a * bb.VAR20.d >= bb.VAR20.n * bb.SMA20.d * bb.SMA20.d

\* c >= SMA20 + 2*STD20
AtOrAboveUpper(c, bb) ==
    LET a == c * bb.SMA20.d - bb.SMA20.n
    IN  a >= 0 /\ a * a * bb.VAR20.d >= BB_MULT * BB_MULT * bb.VAR20.n * bb.SMA20.d * bb.SMA20.d

\* 4. CCI (20).  With T = High + Low + Close = 3*tp over the window of w
\* bars, dev[i] = w*T[i] - sum(T) = 3*w*(tp[i] - mean) and D = sum |dev[i]|
\* = 3*w*w*mad:  CCI = (tp - mean) / (0.015 * mad) = 1000*w*dev / (15*D)
CCI_last(df) ==
    LET T == Rolling([i \in 1..Len(df) |-> df[i].High + df[i].Low + df[i].Close],
                     CCI_WINDOW)
        dev == [i \in 1..CCI_WINDOW |-> CCI_WINDOW * T[i] - SumSeq(T)]
        D == SumSeq([i \in 1..CCI_WINDOW |-> Abs(dev[i])])
    IN  Quot(ZInt(1000 * CCI_WINDOW * dev[CCI_WINDOW]), ZInt(15 * D))

\* 5. Stochastic Fast (14)
Stoch_K_last(df) ==
    LET low_14 == MinSeq(Rolling(Col(df, "Low"), STOCH_WINDOW))
        high_14 == MaxSeq(Rolling(Col(df, "High"), STOCH_WINDOW))
    IN  Quot(ZInt((df[Len(df)].Close - low_14) * 100), ZInt(high_14 - low_14))

\* 6. Momentum (10)
Momentum_last(df) == df[Len(df)].Close - df[Len(df) - MOMENTUM_LAG].Close

Indicators == {"MACD", "RSI", "BB", "CCI", "Stochastic", "Momentum"}
Signal == {"Buy", "Sell", "Neutral"}

\* df.iloc[-1] of the computed frame
LastRow(df) ==
    LET m == MACD_last(df)
        r == RSI_last(df)
        b == BB_last(df)
    IN  [Close |-> df[Len(df)].Close,
         MACD |-> m.MACD, Signal_Line |-> m.Signal_Line,
         gain |-> r.gain, loss |-> r.loss, RSI |-> r.RSI,
         SMA20 |-> b.SMA20, VAR20 |-> b.VAR20,
         CCI |-> CCI_last(df), Stoch_K |-> Stoch_K_last(df),
         Momentum |-> Momentum_last(df)]

MACD_signal(last) == IF ZLess(last.Signal_Line, last.MACD) THEN "Buy" ELSE "Sell"

RSI_signal(last) ==
    IF Lt(last.RSI, RSI_LOW) THEN "Buy"
    ELSE IF Gt(last.RSI, RSI_HIGH) THEN "Sell" ELSE "Neutral"

BB_signal(last) ==
    IF AtOrBelowLower(last.Close, last) THEN "Buy"
    ELSE IF AtOrAboveUpper(last.Close, last) THEN "Sell" ELSE "Neutral"

CCI_signal(last) ==
    IF Lt(last.CCI, -CCI_LIMIT) THEN "Buy"
    ELSE IF Gt(last.CCI, CCI_LIMIT) THEN "Sell" ELSE "Neutral"

Stochastic_signal(last) ==
    IF Lt(last.Stoch_K, STOCH_LOW) THEN "Buy"
    ELSE IF Gt(last.Stoch_K, STOCH_HIGH) THEN "Sell" ELSE "Neutral"

Momentum_signal(last) == IF last.Momentum > 0 THEN "Buy" ELSE "Sell"

\* lines 126-141: the signals of the last row
Signals(last) ==
    [MACD |-> MACD_signal(last), RSI |-> RSI_signal(last),
     BB |-> BB_signal(last), CCI |-> CCI_signal(last),
     Stochastic |-> Stochastic_signal(last),
     Momentum |-> Momentum_signal(last)]

\* a guard that also turns away MIN_BARS bars; property C2 must tell it
\* from the code's
calculate_with_late_guard(df) ==
    IF Len(df) <= MIN_BARS THEN <<None, None>>
    ELSE CHOOSE r \in {<<Signals(last), last>> : last \in {LastRow(df)}} : TRUE

\* returns (signals, df); df is kept as its last row, which is computed
\* once and bound before the rules read it
calculate_comprehensive_signals(df) ==
    IF Len(df) < MIN_BARS THEN <<None, None>>
    ELSE CHOOSE r \in {<<Signals(last), last>> : last \in {LastRow(df)}} : TRUE

-----------------------------------------------------------------------------
(* Price histories: the closes start at BasePrice and move by the deltas    *)
(* of a repeated pattern; the last `flat` bars do not move, but for the    *)
(* last bar, which moves by `jump`; a bar opens at the previous close and  *)
(* its high and low lie `spread` beyond its open and close.                *)

CloseAt(n, pattern, flat, jump, t) ==
    BasePrice
    + SumSeq([i \in 1..(t - 1) |->
                IF i + 1 > n - flat THEN 0 ELSE pattern[((i - 1) % Len(pattern)) + 1]])
    + (IF t = n /\ n > 1 THEN jump ELSE 0)

\* SubSeq makes the rows a plain sequence
MkHistory(n, pattern, flat, jump, spread) ==
    LET c == SubSeq([t \in 1..n |-> CloseAt(n, pattern, flat, jump, t)], 1, n)
    IN  SubSeq([t \in 1..n |->
                   LET o == IF t = 1 THEN c[1] ELSE c[t - 1]
                   IN  [Open |-> o, High |-> Max(o, c[t]) + spread,
                        Low |-> Min(o, c[t]) - spread, Close |-> c[t]]], 1, n)

Patterns == {<<0>>, <<1>>, <<-1>>, <<2, -1>>, <<1, -2>>, <<3, -3>>}
Flats == {0, STOCH_WINDOW, CCI_WINDOW}
Jumps == {-6, 0, 6}
Spreads == {0, 1}

\* every length below MIN_BARS, the two shortest that are computed and the
\* two longest
Lengths ==
    {n \in 0..MaxBars : n <= MIN_BARS + 1 \/ n >= MaxBars - 1}

Histories ==
    {MkHistory(n, p, f, j, s) :
        n \in Lengths, p \in Patterns, f \in Flats, j \in Jumps, s \in Spreads}

-----------------------------------------------------------------------------
(* 2. The sentiment scorer.  A reply is what ollama.chat does for one item: *)
(* it raises, or it answers a text that json.loads rejects, or a JSON      *)
(* object with a sentiment and a score.  Scores are kept in tenths; they   *)
(* and the failure score 0 are values whose float sum and mean over up to  *)
(* NEWS_LIMIT items fall on the same side of +-0.3 as the exact ones.      *)

Scores == {-6, -3, 3, 6}
Replies == {[kind |-> "raise"], [kind |-> "garbage"]}
           \cup {[kind |-> "json", score |-> x] : x \in Scores}

\* a scorer whose failure counts against the ticker; property C5 must tell
\* it from the code's
analyze_failure_bearish(reply) ==
    IF reply.kind = "json"
    THEN [sentiment |-> IF reply.score > 0 THEN "Bullish" ELSE "Bearish",
          score |-> reply.score]
    ELSE [sentiment |-> "Bearish", score |-> -6]

\* the model is asked for a sentiment that fits the score
analyze_news_sentiment(reply) ==
    IF reply.kind = "json"
    THEN [sentiment |-> IF reply.score > 0 THEN "Bullish" ELSE "Bearish",
          score |-> reply.score]
    ELSE [sentiment |-> "Neutral", score |-> 0]

-----------------------------------------------------------------------------
(* 5. The 7-factor aggregation of the selected ticker's page *)

\* news[:5], scored
NewsScores(nw) ==
    [i \in 1..Min(Len(nw), NEWS_LIMIT) |-> analyze_news_sentiment(nw[i]).score]

\* sum(news_scores)/len(news_scores) if news_scores else 0, as n/d in tenths
AvgNewsScore(scores) ==
    IF scores # <<>> THEN [n |-> SumSeq(scores), d |-> Len(scores)]
    ELSE [n |-> 0, d |-> 1]

\* a rule that counts the thresholds in; property C4 must tell it from the
\* code's
NewsSignalInclusive(avg) ==
    IF avg.n >= 3 * avg.d THEN "Buy"
    ELSE IF avg.n <= -3 * avg.d THEN "Sell" ELSE "Neutral"

\* "Buy" if avg > 0.3 else "Sell" if avg < -0.3 else "Neutral"
NewsSignal(avg) ==
    IF avg.n > 3 * avg.d THEN "Buy"
    ELSE IF avg.n < -3 * avg.d THEN "Sell" ELSE "Neutral"

score_map(s) == CASE s = "Buy" -> 1 [] s = "Sell" -> -1 [] s = "Neutral" -> 0

RECURSIVE SumOver(_, _)
SumOver(f, S) ==
    IF S = {} THEN 0
    ELSE LET k == CHOOSE k \in S : TRUE IN score_map(f[k]) + SumOver(f, S \ {k})

TechScore(signals) == SumOver(signals, DOMAIN signals)
TotalScore(signals, nsig) == TechScore(signals) + score_map(nsig)

\* a mapping that leaves the thresholds out; property C3 must tell it from
\* the code's
DecisionExclusive(total) ==
    IF total > STRONG THEN "Strong Buy"
    ELSE IF total > MILD THEN "Buy"
    ELSE IF total < -STRONG THEN "Strong Sell"
    ELSE IF total < -MILD THEN "Sell"
    ELSE "Hold"

Decision(total) ==
    IF total >= STRONG THEN "Strong Buy"
    ELSE IF total >= MILD THEN "Buy"
    ELSE IF total <= -STRONG THEN "Strong Sell"
    ELSE IF total <= -MILD THEN "Sell"
    ELSE "Hold"

\* lines 238-256, for the signals and the news in hand
Aggregation(signals, nw) ==
    LET scores == NewsScores(nw)
        avg == AvgNewsScore(scores)
        nsig == NewsSignal(avg)
        total == TotalScore(signals, nsig)
    IN  [news_scores |-> scores, avg_news_score |-> avg, news_signal |-> nsig,
         total_score |-> total, decision |-> Decision(total)]

NoAggregation ==
    [news_scores |-> None, avg_news_score |-> None, news_signal |-> None,
     total_score |-> None, decision |-> None]

-----------------------------------------------------------------------------
(* The technical signal engine alone: every history, one call *)

InitSignals ==
    /\ tickers = <<>>
    /\ selected_ticker = NoTicker
    /\ portfolio_file = [kind |-> "absent"]
    /\ pc = "call"
    /\ page = None
    /\ history \in {[bars |-> h] : h \in Histories}
    /\ news = <<>>
    /\ tech_signals = None
    /\ df_calc = None
    /\ news_scores = None
    /\ avg_news_score = None
    /\ news_signal = None
    /\ total_score = None
    /\ decision = None

CalcSignals ==
    /\ pc = "call"
    /\ pc' = "return"
    /\ \E r \in {calculate_comprehensive_signals(history.bars)} :
           tech_signals' = r[1] /\ df_calc' = r[2]
    /\ UNCHANGED <<tickers, selected_ticker, portfolio_file, page, history, news,
                   news_scores, avg_news_score, news_signal, total_score, decision>>

NextSignals == CalcSignals

SpecSignals == InitSignals /\ [][NextSignals]_vars

-----------------------------------------------------------------------------
(* The aggregation alone: the six signals and the news in hand, one pass *)

AllSignals == [Indicators -> Signal]
AllNeutral == [k \in Indicators |-> "Neutral"]
Feeds(n) == UNION {[1..m -> Replies] : m \in 0..n}

InitAgg ==
    /\ tickers = <<>>
    /\ selected_ticker = NoTicker
    /\ portfolio_file = [kind |-> "absent"]
    /\ pc = "call"
    /\ page = None
    /\ history = None
    /\ \/ tech_signals \in AllSignals /\ news \in Feeds(1)
       \/ tech_signals = AllNeutral /\ news \in Feeds(MaxNews)
    /\ df_calc = None
    /\ news_scores = None
    /\ avg_news_score = None
    /\ news_signal = None
    /\ total_score = None
    /\ decision = None

Aggregate ==
    /\ pc = "call"
    /\ pc' = "return"
    /\ page' = "signals"
    /\ \E r \in {Aggregation(tech_signals, news)} :
           /\ news_scores' = r.news_scores
           /\ avg_news_score' = r.avg_news_score
           /\ news_signal' = r.news_signal
           /\ total_score' = r.total_score
           /\ decision' = r.decision
    /\ UNCHANGED <<tickers, selected_ticker, portfolio_file, history, news,
                   tech_signals, df_calc>>

NextAgg == Aggregate

SpecAgg == InitAgg /\ [][NextAgg]_vars

-----------------------------------------------------------------------------
(* 1, 5. The application: the watchlist, the session and the script runs.   *)
(* A click runs the script: the sidebar's handler, then (in the same run   *)
(* or in the run st.rerun() starts) the main page.                         *)

TickerInputs == {"", "nvda", "NVDA", "Aapl", "tsla"}

\* str.upper()
upper(s) ==
    CASE s = "nvda" -> "NVDA"
      [] s = "Aapl" -> "AAPL"
      [] s = "tsla" -> "TSLA"
      [] OTHER -> s

\* a membership test that never finds the symbol; property C9 must tell it
\* from the code's
NeverInList(t, list) == FALSE

InList(t, list) == \E i \in 1..Len(list) : list[i] = t

load_tickers(file) == IF file.kind = "list" THEN file.items ELSE <<>>
save_tickers(tickers_list) == [kind |-> "list", items |-> tickers_list]

StoredFiles ==
    {[kind |-> "absent"], [kind |-> "invalid"]}
    \cup {save_tickers(l) : l \in {<<>>, <<"NVDA">>, <<"AAPL", "NVDA">>}}

\* what get_stock_data returns for the selected ticker: (None, ...) when the
\* provider fails, else the history and the news.  The results are cached
\* by ticker; the model lets every run draw them anew.
ProviderHistories ==
    {None, [bars |-> <<>>],
     [bars |-> MkHistory(MIN_BARS - 1, <<1>>, 0, 0, 1)],
     [bars |-> MkHistory(MIN_BARS, <<1>>, 0, 0, 1)]}
ProviderNews == {<<>>, <<[kind |-> "raise"]>>, <<[kind |-> "json", score |-> 4]>>}

get_stock_data ==
    {[history |-> h, news |-> IF h = None THEN <<>> ELSE nw] :
        h \in ProviderHistories, nw \in ProviderNews}

\* lines 235-256: the page for the signals returned and the news fetched
Rendered(r, nw) ==
    IF r[2] = None
    THEN \* df_calc.iloc[-1] on None
         [page |-> "AttributeError", tech_signals |-> r[1], df_calc |-> r[2],
          agg |-> NoAggregation]
    ELSE [page |-> "signals", tech_signals |-> r[1], df_calc |-> r[2],
          agg |-> Aggregation(r[1], nw)]

\* lines 227-256: the page of the selected ticker, for the data fetched
SelectedPage(data) ==
    IF data.history = None
    THEN [page |-> "blank", tech_signals |-> None, df_calc |-> None,
          agg |-> NoAggregation]
    ELSE CHOOSE p \in {Rendered(r, data.news) :
                        r \in {calculate_comprehensive_signals(data.history.bars)}} : TRUE

\* lines 299-310: the feed of every ticker's news; no signal is computed
FeedPage ==
    [page |-> "feed", tech_signals |-> None, df_calc |-> None,
     agg |-> NoAggregation]

Init ==
    /\ portfolio_file \in StoredFiles
    /\ tickers = load_tickers(portfolio_file)
    /\ selected_ticker = NoTicker
    /\ pc = "main"
    /\ page = None
    /\ history = None
    /\ news = <<>>
    /\ tech_signals = None
    /\ df_calc = None
    /\ news_scores = None
    /\ avg_news_score = None
    /\ news_signal = None
    /\ total_score = None
    /\ decision = None

\* a new run replaces the page of the last one
NewRun ==
    /\ pc = "idle"
    /\ pc' = "main"
    /\ page' = None
    /\ history' = None
    /\ news' = <<>>
    /\ tech_signals' = None
    /\ df_calc' = None
    /\ news_scores' = None
    /\ avg_news_score' = None
    /\ news_signal' = None
    /\ total_score' = None
    /\ decision' = None

Add(new_ticker) ==
    /\ NewRun
    /\ LET accepted == new_ticker # "" /\ ~InList(upper(new_ticker), tickers)
       IN  /\ accepted => Len(tickers) < MaxTickers
           /\ tickers' = IF accepted THEN Append(tickers, upper(new_ticker)) ELSE tickers
           /\ portfolio_file' = IF accepted THEN save_tickers(tickers') ELSE portfolio_file
    /\ UNCHANGED selected_ticker

Clear ==
    /\ NewRun
    /\ tickers' = <<>>
    /\ portfolio_file' = save_tickers(<<>>)
    /\ UNCHANGED selected_ticker

ShowAllNews ==
    /\ NewRun
    /\ selected_ticker' = NoTicker
    /\ UNCHANGED <<tickers, portfolio_file>>

SelectTicker(i) ==
    /\ NewRun
    /\ selected_ticker' = tickers[i]
    /\ UNCHANGED <<tickers, portfolio_file>>

MainPage ==
    /\ pc = "main"
    /\ pc' = "idle"
    /\ \E data \in get_stock_data :
          /\ selected_ticker = NoTicker => data.history = None
          /\ \E r \in {IF selected_ticker = NoTicker THEN FeedPage
                       ELSE SelectedPage(data)} :
              /\ history' = data.history
              /\ news' = data.news
              /\ page' = r.page
              /\ tech_signals' = r.tech_signals
              /\ df_calc' = r.df_calc
              /\ news_scores' = r.agg.news_scores
              /\ avg_news_score' = r.agg.avg_news_score
              /\ news_signal' = r.agg.news_signal
              /\ total_score' = r.agg.total_score
              /\ decision' = r.agg.decision
    /\ UNCHANGED <<tickers, selected_ticker, portfolio_file>>

Next ==
    \/ \E new_ticker \in TickerInputs : Add(new_ticker)
    \/ Clear
    \/ ShowAllNews
    \/ \E i \in 1..Len(tickers) : SelectTicker(i)
    \/ MainPage

Spec == Init /\ [][Next]_vars

-----------------------------------------------------------------------------
(* Properties of the signal engine, checked under SpecSignals *)

Called == pc = "return"
Bars == history.bars
Decisions == {"Strong Buy", "Buy", "Hold", "Sell", "Strong Sell"}

\* C2: a history of fewer than 30 bars yields no signals and no computed
\* series; a history of 30 bars or more yields exactly the six signals
\* MACD, RSI, BB, CCI, Stochastic and Momentum, each Buy, Sell or Neutral.
C2_SignalsOrNothing ==
    Called =>
        IF Len(Bars) < 30
        THEN tech_signals = None /\ df_calc = None
        ELSE /\ df_calc # None
             /\ DOMAIN tech_signals
                  = {"MACD", "RSI", "BB", "CCI", "Stochastic", "Momentum"}
             /\ \A k \in DOMAIN tech_signals :
                    tech_signals[k] \in {"Buy", "Sell", "Neutral"}

\* exactly 30 bars, and the signals are there
C2_Witness ==
    /\ Called
    /\ Len(Bars) = 30
    /\ tech_signals # None
    /\ tech_signals.MACD = "Buy"

\* the windows that end at the last bar
LastBars(df, w) == SubSeq(df, Len(df) - w + 1, Len(df))
ZeroGainAndLoss(last) == ZIsZero(last.gain) /\ ZIsZero(last.loss)
ZeroMAD(df) ==
    \A i, j \in (Len(df) - CCI_WINDOW + 1)..Len(df) :
        df[i].High + df[i].Low + df[i].Close = df[j].High + df[j].Low + df[j].Close
ZeroRange(df) ==
    MaxSeq(Col(LastBars(df, STOCH_WINDOW), "High"))
        = MinSeq(Col(LastBars(df, STOCH_WINDOW), "Low"))

\* C7: when the average gain and the average loss are both zero the RSI
\* signal is Neutral, when the mean absolute deviation of the typical price
\* is zero the CCI signal is Neutral, when the high-low range of the
\* Stochastic window is zero the Stochastic signal is Neutral; the value of
\* each is then not finite, and every signal is still Buy, Sell or Neutral.
C7_ZeroDenominatorNeutral ==
    (Called /\ Len(Bars) >= 30) =>
        /\ ZeroGainAndLoss(df_calc) =>
              ~IsFinite(df_calc.RSI) /\ tech_signals.RSI = "Neutral"
        /\ ZeroMAD(Bars) =>
              ~IsFinite(df_calc.CCI) /\ tech_signals.CCI = "Neutral"
        /\ ZeroRange(Bars) =>
              ~IsFinite(df_calc.Stoch_K) /\ tech_signals.Stochastic = "Neutral"
        /\ \A k \in DOMAIN tech_signals :
              tech_signals[k] \in {"Buy", "Sell", "Neutral"}

\* the three denominators are zero at once
C7_Witness ==
    /\ Called
    /\ Len(Bars) >= 30
    /\ ZeroGainAndLoss(df_calc)
    /\ ZeroMAD(Bars)
    /\ ZeroRange(Bars)
    /\ tech_signals.RSI = "Neutral"

Constant(df) ==
    \A i \in 1..Len(df) :
        /\ df[i].Open = df[1].Close
        /\ df[i].High = df[1].Close
        /\ df[i].Low = df[1].Close
        /\ df[i].Close = df[1].Close

\* C6: for a constant series of 30 bars or more the Bollinger bands
\* collapse onto the price (deviation 0, mean = close) and the Bollinger
\* signal is Neutral.  (The code answers Buy: close <= lower band.)
C6_ConstantSeriesNeutral ==
    (Called /\ Len(Bars) >= 30 /\ Constant(Bars)) =>
        /\ df_calc.VAR20.n = 0
        /\ df_calc.SMA20.n = df_calc.Close * df_calc.SMA20.d
        /\ tech_signals.BB = "Neutral"

Rising(df) == \A i \in 2..Len(df) : df[i].Close = df[i - 1].Close + 1

\* C8 as written: for a series of 40 bars or more whose close rises by 1
\* each bar, the Bollinger signal of the last bar is Sell.
C8_RisingSeriesSell ==
    (Called /\ Len(Bars) >= 40 /\ Rising(Bars)) => tech_signals.BB = "Sell"

\* C8, amended: for a series of 40 bars or more whose close rises by 1 each
\* bar, the close of the last bar is strictly between the bands (9.5 above
\* the mean, the upper band 2*sqrt(35) above it) and the Bollinger signal
\* is Neutral.
C8_RisingSeriesNeutral ==
    (Called /\ Len(Bars) >= 40 /\ Rising(Bars)) =>
        /\ 2 * df_calc.SMA20.n = (2 * df_calc.Close - 19) * df_calc.SMA20.d
        /\ df_calc.VAR20.n = 35 * df_calc.VAR20.d
        /\ tech_signals.BB = "Neutral"

C8_Witness ==
    /\ Called
    /\ Len(Bars) >= 40
    /\ Rising(Bars)
    /\ tech_signals.BB = "Neutral"

-----------------------------------------------------------------------------
(* Properties of the aggregation, checked under SpecAgg *)

Count(v) == Cardinality({k \in DOMAIN tech_signals : tech_signals[k] = v})

\* C3: the total score is the sum of the contributions (+1 Buy, -1 Sell,
\* 0 Neutral) of the six technical signals and of the news signal, so it is
\* an integer from -7 to 7; the decision is Strong Buy from 4 up, Buy from
\* 1 to 3, Strong Sell from -4 down, Sell from -3 to -1, and Hold at 0.
C3_ScoreAndDecision ==
    Called =>
        /\ total_score
             = Count("Buy") - Count("Sell")
               + (IF news_signal = "Buy" THEN 1
                  ELSE IF news_signal = "Sell" THEN -1 ELSE 0)
        /\ total_score \in -7..7
        /\ total_score \in 4..7 => decision = "Strong Buy"
        /\ total_score \in 1..3 => decision = "Buy"
        /\ total_score = 0 => decision = "Hold"
        /\ total_score \in -3..-1 => decision = "Sell"
        /\ total_score \in -7..-4 => decision = "Strong Sell"

\* a total of exactly 4, the news signal one of the four Buys
C3_Witness ==
    /\ Called
    /\ total_score = 4
    /\ news_signal = "Buy"
    /\ Count("Neutral") = 3
    /\ decision = "Strong Buy"

\* the scores (in tenths) of the first five items, a failed item counting 0
Counted == 1..(IF Len(news) < 5 THEN Len(news) ELSE 5)
ItemScore(i) == IF news[i].kind = "json" THEN news[i].score ELSE 0
RECURSIVE ScoreSum(_)
ScoreSum(n) == IF n = 0 THEN 0 ELSE ScoreSum(n - 1) + ItemScore(n)
CountedSum == ScoreSum(Cardinality(Counted))

\* C4: the news signal is Buy exactly when the mean score of the first five
\* items (of all, when there are fewer) is strictly greater than 0.3, Sell
\* exactly when it is strictly less than -0.3, and Neutral otherwise: a mean
\* of exactly 0.3 or -0.3 is Neutral.  Without news the mean is 0 and the
\* signal Neutral.
C4_NewsSignal ==
    Called =>
        /\ news_signal \in {"Buy", "Sell", "Neutral"}
        /\ news_signal = "Buy"
             <=> (Counted # {} /\ CountedSum > 3 * Cardinality(Counted))
        /\ news_signal = "Sell"
             <=> (Counted # {} /\ CountedSum < -3 * Cardinality(Counted))
        /\ news = <<>> =>
             avg_news_score.n = 0 /\ news_signal = "Neutral"

\* five items whose mean is exactly 0.3, and a sixth that would lift it
C4_Witness ==
    /\ Called
    /\ Len(news) = 6
    /\ CountedSum = 3 * 5
    /\ news[6] = [kind |-> "json", score |-> 6]
    /\ news_signal = "Neutral"

\* C5: an item on which the scorer fails (it raises, or its reply cannot be
\* parsed) is scored 0 and is Neutral; the failure does not stop the page:
\* the other items keep their scores and the decision is made.
C5_ScorerFailureIsNeutral ==
    Called =>
        /\ Len(news_scores) = Cardinality(Counted)
        /\ \A i \in Counted :
              IF news[i].kind = "json"
              THEN news_scores[i] = news[i].score
              ELSE /\ news_scores[i] = 0
                   /\ analyze_news_sentiment(news[i]).sentiment = "Neutral"
        /\ page = "signals"
        /\ decision \in Decisions

\* a failure among scored items, and the others still decide the signal
C5_Witness ==
    /\ Called
    /\ \E i, j \in Counted : news[i].kind = "raise" /\ news[j].kind = "garbage"
    /\ news_signal = "Buy"
    /\ decision = "Buy"

-----------------------------------------------------------------------------
(* Properties of the application, checked under Spec *)

Rendered_ == pc = "idle"

\* C1: when a ticker is selected and its history has fewer than 30 bars,
\* the page says that no decision is available; the run ends without an
\* unhandled fault.  (The code reads the last row of the series that
\* calculate_comprehensive_signals did not return.)
C1_ShortHistoryNoFault ==
    (Rendered_ /\ selected_ticker # NoTicker /\ history # None
       /\ Len(history.bars) < 30) =>
        /\ page # "AttributeError"
        /\ decision = None

Symbols == {"NVDA", "AAPL", "TSLA"}
Listed(t, list) == \E i \in DOMAIN list : list[i] = t
Distinct(list) == \A i, j \in DOMAIN list : list[i] = list[j] => i = j

WatchlistOK ==
    /\ Distinct(tickers)
    /\ \A i \in DOMAIN tickers : tickers[i] \in Symbols
    /\ portfolio_file.kind = "list" => portfolio_file.items = tickers
    /\ portfolio_file.kind # "list" => tickers = <<>>

WatchlistStep ==
    \/ tickers' = tickers /\ portfolio_file' = portfolio_file
    \/ \E t \in Symbols :
          /\ ~Listed(t, tickers)
          /\ tickers' = Append(tickers, t)
          /\ portfolio_file' = [kind |-> "list", items |-> tickers']
    \/ /\ tickers' = <<>>
       /\ portfolio_file' = [kind |-> "list", items |-> <<>>]

\* C9: the watchlist is always a list of distinct uppercase symbols, in the
\* order they were added; a step either leaves it alone, or appends one
\* uppercase symbol that was not in it, or empties it; whenever it is
\* changed the stored list is the one in memory.
C9_Watchlist == []WatchlistOK /\ [][WatchlistStep]_vars

\* "tsla" was added after NVDA, and stored
C9_Witness ==
    /\ tickers = <<"NVDA", "TSLA">>
    /\ portfolio_file = [kind |-> "list", items |-> <<"NVDA", "TSLA">>]
    /\ Rendered_

\* C10: the selected ticker is None or a member of the watchlist, whatever
\* was added, cleared, selected or shown.  (Clear empties the watchlist
\* and leaves the selection.)
C10_SelectedIsListed ==
    selected_ticker = NoTicker \/ Listed(selected_ticker, tickers)

=============================================================================
